---------------------------- MODULE Spec2Model ----------------------------
(***************************************************************************)
(* The chat-relay bot of src/main.py: the per-chat history store           *)
(* (user_histories), prompt assembly (build_prompt), response recording    *)
(* (update_history), the classification of the remote model's payload      *)
(* (get_ai_response) and the two update handlers (start, handle_message)   *)
(* with their await points.                                                *)
(*                                                                         *)
(* A text (a Python str) is a sequence of one-character strings, so that   *)
(* formatting (f"User: {m}"), joining ("\n".join) and str.strip() are      *)
(* computed character by character.  A history is a sequence of texts.     *)
(***************************************************************************)
EXTENDS Integers, Sequences, FiniteSets, TLC

(***************************************************************************)
(* Program constants and literals.                                         *)
(***************************************************************************)
MAX_HISTORY_LENGTH == 10

USER_PREFIX == <<"U", "s", "e", "r", ":", " ">>
BOT_PREFIX == <<"B", "o", "t", ":", " ">>
NEWLINE == "\n"
\* The two literals of get_ai_response, transliterated from the Cyrillic of
\* the source ("Ошибка: " at line 78, "Не могу ответить." at line 85); each
\* is kept as one token, nothing inspects its characters.
ERROR_PREFIX == <<"Oshibka: ">>
FALLBACK_ANSWER == <<"Ne mogu otvetit'.">>

\* The characters str.strip() removes, among those the texts here use.
Whitespace == {" ", "\n"}

(***************************************************************************)
(* Bounds of the model and the inputs the handlers are given.              *)
(***************************************************************************)
\* Chats and handler coroutines in flight at once.
NumChats == 2
MaxHandlers == 2
\* Updates (commands and messages) dispatched in a run of Spec, of SpecLong.
MaxUpdates == 3
MaxUpdatesLong == 8
\* In SpecLong a /start is one of the first StartWindowLong updates.
StartWindowLong == 2

Chats == 1..NumChats
Handlers == 1..MaxHandlers

\* Message texts a user sends: a plain word and a message with a line break.
UserTexts == { <<"h", "i">>, <<"a", "\n", "b">> }
\* Texts the remote model generates: one needs stripping, one does not.
PlainText == <<"o", "k">>
PaddedText == <<" ", "y", "o", "\n">>
\* The error descriptions query() reports.
ErrTexts == { <<"e", "r", "r">> }

(***************************************************************************)
(* Payloads query() returns: the decoded JSON is a dict or a list of       *)
(* dicts.  A dict is a function from its keys to texts; a payload is       *)
(* [is_list, items], a dict payload holding the dict itself as items[1].   *)
(***************************************************************************)
DictPayload(d) == [is_list |-> FALSE, items |-> <<d>>]
ListPayload(ds) == [is_list |-> TRUE, items |-> ds]

ErrorPayloads == { DictPayload("error" :> e) : e \in ErrTexts }
GeneratedPayloads ==
    { ListPayload(<<"generated_text" :> PaddedText>>),
      DictPayload("generated_text" :> PlainText) }
MalformedPayloads ==
    { DictPayload("estimated_time" :> <<"9">>),
      ListPayload(<<"score" :> <<"1">>>>),
      ListPayload(<<>>) }
Payloads == ErrorPayloads \cup GeneratedPayloads \cup MalformedPayloads
\* The payloads of the long single-chat runs: one success shape, one error.
PayloadsLong ==
    { ListPayload(<<"generated_text" :> PaddedText>>),
      DictPayload("error" :> <<"e", "r", "r">>) }
NoPayload == [is_list |-> FALSE, items |-> <<>>]

(***************************************************************************)
(* Python's list and str operations.                                       *)
(***************************************************************************)
Min(a, b) == IF a <= b THEN a ELSE b
Max(a, b) == IF a >= b THEN a ELSE b

\* s[-n:] for n > 0: the last n elements, all of s when it is shorter.
LastN(s, n) == SubSeq(s, Max(1, Len(s) - n + 1), Len(s))

\* sep.join(lines)
RECURSIVE Join(_, _)
Join(lines, sep) ==
    IF Len(lines) = 0 THEN <<>>
    ELSE IF Len(lines) = 1 THEN lines[1]
    ELSE lines[1] \o <<sep>> \o Join(Tail(lines), sep)

\* str.lstrip(), str.rstrip(), str.strip()
RECURSIVE LStrip(_)
LStrip(t) ==
    IF Len(t) > 0 /\ t[1] \in Whitespace THEN LStrip(Tail(t)) ELSE t
RECURSIVE RStrip(_)
RStrip(t) ==
    IF Len(t) > 0 /\ t[Len(t)] \in Whitespace
    THEN RStrip(SubSeq(t, 1, Len(t) - 1)) ELSE t
Strip(t) == RStrip(LStrip(t))

\* f"User: {new_message}" and f"Bot: {bot_response}"
UserTurn(new_message) == USER_PREFIX \o new_message
BotTurn(bot_response) == BOT_PREFIX \o bot_response

\* dict.get(chat_id, [])
\* Mutant of Get: one list shared by all chats (the first chat's), whatever
\* the chat id asked for.
Get_shared(histories, chat_id) ==
    IF 1 \in DOMAIN histories THEN histories[1] ELSE <<>>

Get(histories, chat_id) ==
    IF chat_id \in DOMAIN histories THEN histories[chat_id] ELSE <<>>

\* histories[chat_id] = value
Put(histories, chat_id, value) ==
    [k \in DOMAIN histories \cup {chat_id} |->
        IF k = chat_id THEN value ELSE histories[k]]

\* Mutant of reset_history: user_histories.setdefault(chat_id, []), which
\* keeps a history that is already stored.
reset_history_keep(histories, chat_id) ==
    IF chat_id \in DOMAIN histories THEN histories
    ELSE Put(histories, chat_id, <<>>)

\* user_histories[chat_id] = []  (start, line 94)
reset_history(histories, chat_id) == Put(histories, chat_id, <<>>)

\* Mutant of build_prompt: history[:MAX_HISTORY_LENGTH], the first entries.
build_prompt_first(histories, chat_id, new_message) ==
    LET history == Append(Get(histories, chat_id), UserTurn(new_message))
    IN  [histories |-> IF chat_id \in DOMAIN histories
                       THEN [histories EXCEPT ![chat_id] = history]
                       ELSE histories,
         prompt |-> Join(SubSeq(history, 1,
                                Min(MAX_HISTORY_LENGTH, Len(history))),
                         NEWLINE)]

\* Mutant of build_prompt: the prompt is joined before the append.
build_prompt_stale(histories, chat_id, new_message) ==
    LET old == Get(histories, chat_id)
        history == Append(old, UserTurn(new_message))
    IN  [histories |-> IF chat_id \in DOMAIN histories
                       THEN [histories EXCEPT ![chat_id] = history]
                       ELSE histories,
         prompt |-> Join(LastN(old, MAX_HISTORY_LENGTH), NEWLINE)]

\* Mutant of build_prompt: the turn is appended to a copy of the stored
\* list (list(history) + [turn]), the store is left as it was.
build_prompt_copy(histories, chat_id, new_message) ==
    LET history == Append(Get(histories, chat_id), UserTurn(new_message))
    IN  [histories |-> histories,
         prompt |-> Join(LastN(history, MAX_HISTORY_LENGTH), NEWLINE)]

(***************************************************************************)
(* build_prompt: the list fetched from the store is appended to in place,  *)
(* so a stored history grows by the new turn; the default [] of an absent  *)
(* chat_id is a fresh list that is never stored.  The prompt is the join   *)
(* of the last MAX_HISTORY_LENGTH entries of that list.                    *)
(***************************************************************************)
build_prompt(histories, chat_id, new_message) ==
    LET history == Append(Get(histories, chat_id), UserTurn(new_message))
    IN  [histories |-> IF chat_id \in DOMAIN histories
                       THEN [histories EXCEPT ![chat_id] = history]
                       ELSE histories,
         prompt |-> Join(LastN(history, MAX_HISTORY_LENGTH), NEWLINE)]

\* Mutant of update_history: user_histories[chat_id] is read without a
\* default, so nothing is recorded for a chat_id that is no key.
update_history_known_only(histories, chat_id, bot_response) ==
    IF chat_id \in DOMAIN histories
    THEN Put(histories, chat_id,
             LastN(Append(histories[chat_id], BotTurn(bot_response)),
                   MAX_HISTORY_LENGTH))
    ELSE histories

\* Mutant of update_history: the truncation is left out.
update_history_unbounded(histories, chat_id, bot_response) ==
    Put(histories, chat_id,
        Append(Get(histories, chat_id), BotTurn(bot_response)))

\* Mutant of update_history: history[:MAX_HISTORY_LENGTH], the first entries.
update_history_first(histories, chat_id, bot_response) ==
    LET history == Append(Get(histories, chat_id), BotTurn(bot_response))
    IN  Put(histories, chat_id,
            SubSeq(history, 1, Min(MAX_HISTORY_LENGTH, Len(history))))

(***************************************************************************)
(* update_history: append the bot turn and store the last                  *)
(* MAX_HISTORY_LENGTH entries under chat_id.                               *)
(***************************************************************************)
update_history(histories, chat_id, bot_response) ==
    LET history == Append(Get(histories, chat_id), BotTurn(bot_response))
    IN  Put(histories, chat_id, LastN(history, MAX_HISTORY_LENGTH))

(***************************************************************************)
(* get_ai_response, lines 76-85: what the payload is taken for.            *)
(*   `"error" in output` is a key test on a dict and an element test on a  *)
(*   list (no dict equals the string, so it is false on a list);           *)
(*   output[0] of an empty list raises IndexError.                         *)
(* The result says how the function goes on: "return" with an answer,      *)
(* "record" with the generated text (lines 87-89 follow), or "raise".      *)
(***************************************************************************)
HasKey(output, key) == ~output.is_list /\ key \in DOMAIN output.items[1]

\* Mutant of classify: the test for the "error" key is left out.
classify_no_error(output) ==
    IF output.is_list /\ Len(output.items) = 0
    THEN [go |-> "raise", text |-> <<>>]
    ELSE IF output.is_list /\ "generated_text" \in DOMAIN output.items[1]
    THEN [go |-> "record", text |-> output.items[1]["generated_text"]]
    ELSE IF HasKey(output, "generated_text")
    THEN [go |-> "record", text |-> output.items[1]["generated_text"]]
    ELSE [go |-> "return", text |-> FALLBACK_ANSWER]

classify(output) ==
    IF HasKey(output, "error")
    THEN [go |-> "return",
          text |-> ERROR_PREFIX \o output.items[1]["error"]]
    ELSE IF output.is_list /\ Len(output.items) = 0
    THEN [go |-> "raise", text |-> <<>>]
    ELSE IF output.is_list /\ "generated_text" \in DOMAIN output.items[1]
    THEN [go |-> "record", text |-> output.items[1]["generated_text"]]
    ELSE IF HasKey(output, "generated_text")
    THEN [go |-> "record", text |-> output.items[1]["generated_text"]]
    ELSE [go |-> "return", text |-> FALLBACK_ANSWER]

(***************************************************************************)
(* State.                                                                  *)
(*   user_histories  the store: a function from the chat ids that are keys *)
(*                   to their histories                                    *)
(*   tasks           the handler coroutines in flight, one per slot, each  *)
(*                   with its position and locals                          *)
(* History variables (not read by the program):                            *)
(*   log      per chat, the turns appended since its last /start           *)
(*   started  per chat, whether /start has run for it                      *)
(*   lastOp   per chat, the last store operation applied to it             *)
(*   updates  the number of updates dispatched so far                      *)
(***************************************************************************)
VARIABLES user_histories, tasks, log, started, lastOp, updates

vars == <<user_histories, tasks, log, started, lastOp, updates>>

Idle ==
    [pc |-> "idle", chat_id |-> 0, user_text |-> <<>>, prompt |-> <<>>,
     output |-> NoPayload, text |-> <<>>, answer |-> <<>>]

\* Positions at which a coroutine holds the event loop: it has resumed and
\* has not reached its next await.
RunningPcs == {"L106", "L76", "L88"}

\* Mutant of MayRun: the remote call is awaited (an asynchronous HTTP
\* client), so other coroutines run while one is inside get_ai_response.
MayRun_suspending(h) == TRUE

\* The event loop runs one coroutine at a time: h may take a step only when
\* no other coroutine is between two awaits.
MayRun(h) == \A g \in Handlers \ {h} : tasks[g].pc \notin RunningPcs

\* Updates are given to the lowest free slot.
FreeSlot(h) ==
    /\ tasks[h].pc = "idle"
    /\ \A g \in Handlers : g < h => tasks[g].pc # "idle"

\* Chat ids are opaque: a run is the same up to renaming them, so a new
\* chat id is the lowest one no update has carried yet.
Known(c) == lastOp[c] # "none" \/ \E h \in Handlers : tasks[h].chat_id = c
NextChat(c) == IF c = 1 THEN TRUE ELSE Known(c - 1)

Init ==
    /\ user_histories = [c \in {} |-> <<>>]
    /\ tasks = [h \in Handlers |-> Idle]
    /\ log = [c \in Chats |-> <<>>]
    /\ started = [c \in Chats |-> FALSE]
    /\ lastOp = [c \in Chats |-> "none"]
    /\ updates = 0

(***************************************************************************)
(* start, lines 92-96: the store entry is replaced by [] before the        *)
(* handler's only await (the greeting).  The update is one of the first    *)
(* `window` updates of the run and of at most `limit`.                     *)
(***************************************************************************)
start(h, chat_id, limit, window) ==
    /\ FreeSlot(h) /\ MayRun(h) /\ NextChat(chat_id)
    /\ updates < limit /\ updates < window
    /\ user_histories' = reset_history(user_histories, chat_id)
    /\ tasks' = [tasks EXCEPT ![h] = [Idle EXCEPT !.pc = "L96",
                                                  !.chat_id = chat_id]]
    /\ log' = [log EXCEPT ![chat_id] = <<>>]
    /\ started' = [started EXCEPT ![chat_id] = TRUE]
    /\ lastOp' = [lastOp EXCEPT ![chat_id] = "start"]
    /\ updates' = updates + 1

(***************************************************************************)
(* handle_message, lines 99-104: the handler reads the update and awaits   *)
(* the "please wait" reply.                                                *)
(***************************************************************************)
handle_message(h, chat_id, user_text, limit) ==
    /\ FreeSlot(h) /\ MayRun(h) /\ NextChat(chat_id)
    /\ updates < limit
    /\ tasks' = [tasks EXCEPT ![h] = [Idle EXCEPT !.pc = "L104",
                                                  !.chat_id = chat_id,
                                                  !.user_text = user_text]]
    /\ updates' = updates + 1
    /\ UNCHANGED <<user_histories, log, started, lastOp>>

(***************************************************************************)
(* handle_message, line 105: resumed after the await, it calls             *)
(* build_prompt.                                                           *)
(***************************************************************************)
BuildPromptStep(h) ==
    /\ tasks[h].pc = "L104" /\ MayRun(h)
    /\ LET r == build_prompt(user_histories, tasks[h].chat_id,
                             tasks[h].user_text)
       IN  /\ user_histories' = r.histories
           /\ tasks' = [tasks EXCEPT ![h].pc = "L106",
                                      ![h].prompt = r.prompt]
    /\ log' = [log EXCEPT ![tasks[h].chat_id] =
                  Append(@, UserTurn(tasks[h].user_text))]
    /\ lastOp' = [lastOp EXCEPT ![tasks[h].chat_id] = "build_prompt"]
    /\ UNCHANGED <<started, updates>>

(***************************************************************************)
(* get_ai_response, line 74: query() is a blocking call (requests.post),   *)
(* so the coroutine does not suspend; it returns some payload.             *)
(***************************************************************************)
query(h, output) ==
    /\ tasks[h].pc = "L106" /\ MayRun(h)
    /\ tasks' = [tasks EXCEPT ![h].pc = "L76", ![h].output = output]
    /\ UNCHANGED <<user_histories, log, started, lastOp, updates>>

(***************************************************************************)
(* get_ai_response, lines 76-85: return the error message or the fallback, *)
(* go on to record the generated text, or raise.  A return is followed by  *)
(* handle_message's await at line 107; an exception ends the handler.      *)
(* Locals that are not read again (prompt, output, text) are dropped.      *)
(***************************************************************************)
get_ai_response(h) ==
    /\ tasks[h].pc = "L76" /\ MayRun(h)
    /\ LET c == classify(tasks[h].output)
       IN  tasks' = [tasks EXCEPT
              ![h].pc = CASE c.go = "return" -> "L107"
                          [] c.go = "record" -> "L88"
                          [] OTHER -> "raised",
              ![h].prompt = IF c.go = "record" THEN @ ELSE <<>>,
              ![h].output = NoPayload,
              ![h].text = IF c.go = "record" THEN c.text ELSE <<>>,
              ![h].answer = IF c.go = "return" THEN c.text ELSE <<>>]
    /\ UNCHANGED <<user_histories, log, started, lastOp, updates>>

(***************************************************************************)
(* get_ai_response, lines 88-89: update_history(chat_id, text.strip()),    *)
(* then return text.strip().                                               *)
(***************************************************************************)
UpdateHistoryStep(h) ==
    /\ tasks[h].pc = "L88" /\ MayRun(h)
    /\ user_histories' = update_history(user_histories, tasks[h].chat_id,
                                        Strip(tasks[h].text))
    /\ tasks' = [tasks EXCEPT ![h].pc = "L107",
                               ![h].prompt = <<>>,
                               ![h].text = <<>>,
                               ![h].answer = Strip(tasks[h].text)]
    /\ log' = [log EXCEPT ![tasks[h].chat_id] =
                  Append(@, BotTurn(Strip(tasks[h].text)))]
    /\ lastOp' = [lastOp EXCEPT ![tasks[h].chat_id] = "update_history"]
    /\ UNCHANGED <<started, updates>>

(***************************************************************************)
(* The handler ends: after its last await (line 96 or 107) has completed,  *)
(* or by the exception.                                                    *)
(***************************************************************************)
Finish(h) ==
    /\ tasks[h].pc \in {"L96", "L107", "raised"} /\ MayRun(h)
    /\ tasks' = [tasks EXCEPT ![h] = Idle]
    /\ UNCHANGED <<user_histories, log, started, lastOp, updates>>

(***************************************************************************)
(* Spec: several chats and two handlers in flight, every payload shape,    *)
(* short runs.                                                             *)
(***************************************************************************)
Next ==
    \/ \E h \in Handlers, c \in Chats : start(h, c, MaxUpdates, MaxUpdates)
    \/ \E h \in Handlers, c \in Chats, m \in UserTexts :
          handle_message(h, c, m, MaxUpdates)
    \/ \E h \in Handlers : BuildPromptStep(h)
    \/ \E h \in Handlers, o \in Payloads : query(h, o)
    \/ \E h \in Handlers : get_ai_response(h)
    \/ \E h \in Handlers : UpdateHistoryStep(h)
    \/ \E h \in Handlers : Finish(h)

Spec == Init /\ [][Next]_vars

(***************************************************************************)
(* SpecLong: one chat served by one handler at a time, long enough for     *)
(* the history to pass MAX_HISTORY_LENGTH: a /start as the first or second *)
(* update, then messages whose remote calls succeed or fail.               *)
(***************************************************************************)
NextLong ==
    \/ start(1, 1, MaxUpdatesLong, StartWindowLong)
    \/ \E m \in UserTexts : handle_message(1, 1, m, MaxUpdatesLong)
    \/ BuildPromptStep(1)
    \/ \E o \in PayloadsLong : query(1, o)
    \/ get_ai_response(1)
    \/ UpdateHistoryStep(1)
    \/ Finish(1)

SpecLong == Init /\ [][NextLong]_vars

(***************************************************************************)
(* Helpers of the properties below.                                        *)
(***************************************************************************)
IsPrefix(p, t) == Len(p) <= Len(t) /\ SubSeq(t, 1, Len(p)) = p
IsUserTurn(t) == IsPrefix(USER_PREFIX, t)
IsBotTurn(t) == IsPrefix(BOT_PREFIX, t)
IsSuffix(s, t) ==
    Len(s) <= Len(t) /\ SubSeq(t, Len(t) - Len(s) + 1, Len(t)) = s
\* The handlers that have just run build_prompt (and nothing since).
JustBuilt == { h \in Handlers : tasks[h].pc = "L106" }

(***************************************************************************)
(* C1: after every call of start, build_prompt and update_history, every   *)
(* stored history has at most MAX_HISTORY_LENGTH turns.                    *)
(* The program breaks it: build_prompt appends to the stored list and      *)
(* truncates only the prompt.                                              *)
(***************************************************************************)
C1_HistoryBounded ==
    \A c \in DOMAIN user_histories :
        Len(user_histories[c]) <= MAX_HISTORY_LENGTH

(***************************************************************************)
(* C2: once build_prompt(id, m) has returned, the store has an entry for   *)
(* id and its last turn is "User: m", whether or not id was a key before.  *)
(* The program breaks it for an id that is no key: the default list is     *)
(* never stored.                                                           *)
(***************************************************************************)
C2_BuildPromptStoresUserTurn ==
    \A h \in JustBuilt :
        /\ tasks[h].chat_id \in DOMAIN user_histories
        /\ Len(user_histories[tasks[h].chat_id]) > 0
        /\ user_histories[tasks[h].chat_id]
              [Len(user_histories[tasks[h].chat_id])]
                 = UserTurn(tasks[h].user_text)

(***************************************************************************)
(* C3: the prompt build_prompt returns is the newline-join of the last     *)
(* min(MAX_HISTORY_LENGTH, n) turns of the history after the append, in    *)
(* their order (n its length; the history of an id that is no key is the   *)
(* new turn alone).                                                        *)
(***************************************************************************)
HistoryAfterAppend(h) ==
    IF tasks[h].chat_id \in DOMAIN user_histories
    THEN user_histories[tasks[h].chat_id]
    ELSE <<UserTurn(tasks[h].user_text)>>

C3_PromptIsWindow ==
    \A h \in JustBuilt :
        LET seq == HistoryAfterAppend(h)
            n == Len(seq)
            k == Min(MAX_HISTORY_LENGTH, n)
        IN  tasks[h].prompt = Join(SubSeq(seq, n - k + 1, n), NEWLINE)

\* build_prompt has rendered a history longer than the window.
C3_Witness ==
    \E h \in JustBuilt :
        /\ tasks[h].chat_id \in DOMAIN user_histories
        /\ Len(user_histories[tasks[h].chat_id]) > MAX_HISTORY_LENGTH

(***************************************************************************)
(* C4: the prompt build_prompt(id, m) returns ends with the turn           *)
(* "User: m", which is the whole prompt or starts right after a newline:   *)
(* the new turn is the last rendered one, the window never drops it.       *)
(***************************************************************************)
C4_PromptEndsWithNewTurn ==
    \A h \in JustBuilt :
        LET p == tasks[h].prompt
            t == UserTurn(tasks[h].user_text)
        IN  /\ IsSuffix(t, p)
            /\ Len(p) = Len(t) \/ p[Len(p) - Len(t)] = NEWLINE

\* The window has dropped a turn, and the message has a line break.
C4_Witness ==
    \E h \in JustBuilt :
        /\ tasks[h].chat_id \in DOMAIN user_histories
        /\ Len(user_histories[tasks[h].chat_id]) = MAX_HISTORY_LENGTH + 1
        /\ \E i \in 1..Len(tasks[h].user_text) :
              tasks[h].user_text[i] = NEWLINE
        /\ Len(tasks[h].prompt) > Len(UserTurn(tasks[h].user_text))

(***************************************************************************)
(* C5: update_history(id, r) replaces the stored history H of id by the    *)
(* last MAX_HISTORY_LENGTH turns of H followed by "Bot: r": the new        *)
(* history ends with "Bot: r", has min(MAX_HISTORY_LENGTH, Len(H) + 1)     *)
(* turns, and the turns before the last are the newest turns of H in       *)
(* their order.  (r is text.strip() of the generated text, line 88.)       *)
(***************************************************************************)
C5_RecordResponse ==
    [][\A h \in Handlers :
          tasks[h].pc = "L88" =>
             LET c == tasks[h].chat_id
                 H == Get(user_histories, c)
                 r == Strip(tasks[h].text)
                 n == Min(MAX_HISTORY_LENGTH, Len(H) + 1)
             IN  /\ c \in DOMAIN user_histories'
                 /\ Len(user_histories'[c]) = n
                 /\ user_histories'[c][n] = BotTurn(r)
                 /\ SubSeq(user_histories'[c], 1, n - 1)
                       = SubSeq(H, Len(H) - n + 2, Len(H))]_vars

\* update_history has run on a history that was already full: at least
\* twelve turns were appended since /start, the last one the bot's.
C5_Witness ==
    \E h \in Handlers :
        /\ tasks[h].pc = "L107"
        /\ started[tasks[h].chat_id]
        /\ lastOp[tasks[h].chat_id] = "update_history"
        /\ Len(log[tasks[h].chat_id]) >= MAX_HISTORY_LENGTH + 2
        /\ Len(user_histories[tasks[h].chat_id]) = MAX_HISTORY_LENGTH

(***************************************************************************)
(* C6: a build_prompt(id, m) that is the first store operation on id after *)
(* start(id) returns exactly "User: m", whatever came before the start.    *)
(***************************************************************************)
C6_PromptAfterReset ==
    [][\A h \in Handlers :
          /\ tasks[h].pc = "L104"
          /\ tasks'[h].pc = "L106"
          /\ lastOp[tasks[h].chat_id] = "start"
          => tasks'[h].prompt = UserTurn(tasks[h].user_text)]_vars

\* build_prompt has run right after a /start that followed two earlier
\* updates.
C6_Witness ==
    \E h \in JustBuilt :
        /\ started[tasks[h].chat_id]
        /\ log[tasks[h].chat_id] = <<UserTurn(tasks[h].user_text)>>
        /\ tasks[h].prompt = UserTurn(tasks[h].user_text)
        /\ updates >= 3

(***************************************************************************)
(* C7: when query() returns a payload with an "error" key,                 *)
(* get_ai_response returns the error message and does not call             *)
(* update_history: the store is left as it is.                             *)
(***************************************************************************)
C7_ErrorNotRecorded ==
    [][\A h \in Handlers :
          tasks[h].pc = "L76" =>
             \A e \in ErrTexts :
                tasks[h].output = DictPayload("error" :> e) =>
                   /\ tasks'[h].pc = "L107"
                   /\ tasks'[h].answer = ERROR_PREFIX \o e
                   /\ user_histories' = user_histories]_vars

\* A failed exchange has returned its error message; the chat's history
\* ends with the user's turn.
C7_Witness ==
    \E h \in Handlers, e \in ErrTexts :
        /\ tasks[h].pc = "L107"
        /\ tasks[h].answer = ERROR_PREFIX \o e
        /\ tasks[h].chat_id \in DOMAIN user_histories
        /\ lastOp[tasks[h].chat_id] = "build_prompt"
        /\ IsUserTurn(user_histories[tasks[h].chat_id]
                         [Len(user_histories[tasks[h].chat_id])])

(***************************************************************************)
(* C8: for every payload that is no error and has no generated text (a     *)
(* dict without the key, a list whose first element lacks it, an empty     *)
(* list), get_ai_response returns the fallback answer without raising and  *)
(* without calling update_history.                                         *)
(* The program breaks it on the empty list: output[0] raises IndexError.   *)
(***************************************************************************)
C8_MalformedFallsBack ==
    [][\A h \in Handlers :
          tasks[h].pc = "L76" /\ tasks[h].output \in MalformedPayloads =>
             /\ tasks'[h].pc = "L107"
             /\ tasks'[h].answer = FALLBACK_ANSWER
             /\ user_histories' = user_histories]_vars

(***************************************************************************)
(* C9: in every stored history no two adjacent turns have the same role.   *)
(* The program breaks it: a failed exchange leaves its user turn in a      *)
(* stored history, and the next message appends another.                   *)
(***************************************************************************)
C9_TurnsAlternate ==
    \A c \in DOMAIN user_histories :
        \A i \in 1..(Len(user_histories[c]) - 1) :
            IsUserTurn(user_histories[c][i])
                # IsUserTurn(user_histories[c][i + 1])

(***************************************************************************)
(* C10: for a chat whose history /start has emptied, with                  *)
(* MAX_HISTORY_LENGTH = 10: after 12 turns alternating User/Bot the stored *)
(* history is turns 3..12 of those appended, and the next build_prompt     *)
(* (turn 13) returns the join of turns 4..13; in general the stored        *)
(* history is the tail of the appended turns, update_history leaves the    *)
(* last min(10, n) of them, and once 10 turns are appended build_prompt    *)
(* returns the join of the 10 most recent ones.                            *)
(***************************************************************************)
Alternates(turns) ==
    \A i \in 1..Len(turns) :
        IF i % 2 = 1 THEN IsUserTurn(turns[i]) ELSE IsBotTurn(turns[i])

C10_WindowScenario ==
    \A c \in Chats :
        started[c] =>
           LET n == Len(log[c])
               k == Min(MAX_HISTORY_LENGTH, n)
           IN  /\ c \in DOMAIN user_histories
               /\ Len(user_histories[c]) >= k
               /\ IsSuffix(user_histories[c], log[c])
               /\ lastOp[c] = "update_history" =>
                     user_histories[c] = SubSeq(log[c], n - k + 1, n)
               /\ n = 12 /\ Alternates(log[c]) =>
                     user_histories[c] = SubSeq(log[c], 3, 12)
               /\ \A h \in JustBuilt :
                     tasks[h].chat_id = c =>
                        /\ n >= MAX_HISTORY_LENGTH =>
                              tasks[h].prompt =
                                 Join(SubSeq(log[c],
                                             n - MAX_HISTORY_LENGTH + 1, n),
                                      NEWLINE)
                        /\ n = 13 /\ Alternates(log[c]) =>
                              tasks[h].prompt =
                                 Join(SubSeq(log[c], 4, 13), NEWLINE)

\* The thirteenth turn of an alternating run has just been rendered.
C10_Witness ==
    \E h \in JustBuilt :
        /\ started[tasks[h].chat_id]
        /\ Len(log[tasks[h].chat_id]) = 13
        /\ Alternates(log[tasks[h].chat_id])
        /\ Len(user_histories[tasks[h].chat_id]) = 11
        /\ user_histories[tasks[h].chat_id]
              = SubSeq(log[tasks[h].chat_id], 3, 13)

(***************************************************************************)
(* C11: update_history(id, r) for an id that is no key of the store        *)
(* creates the entry of id with the one-turn history <<"Bot: r">>.         *)
(***************************************************************************)
C11_RecordForUnknownChat ==
    [][\A h \in Handlers :
          /\ tasks[h].pc = "L88"
          /\ tasks[h].chat_id \notin DOMAIN user_histories
          => /\ tasks[h].chat_id \in DOMAIN user_histories'
             /\ user_histories'[tasks[h].chat_id]
                   = <<BotTurn(Strip(tasks[h].text))>>]_vars

\* The first message of a chat that never had /start has been answered:
\* the entry holds the bot's turn alone, the user's turn is in the log only.
C11_Witness ==
    \E h \in Handlers :
        /\ tasks[h].pc = "L107"
        /\ ~started[tasks[h].chat_id]
        /\ lastOp[tasks[h].chat_id] = "update_history"
        /\ Len(log[tasks[h].chat_id]) = 2
        /\ tasks[h].chat_id \in DOMAIN user_histories
        /\ user_histories[tasks[h].chat_id] = <<BotTurn(tasks[h].answer)>>

(***************************************************************************)
(* C12: start is idempotent on the store.  Every start(id) leaves the      *)
(* history of id empty and every other entry as it was, and a start(id)    *)
(* that follows a start(id) with no store operation on id in between       *)
(* leaves the whole store as it was; so does applying the reset a second   *)
(* time to any reachable store.                                            *)
(***************************************************************************)
C12_ResetIdempotent ==
    [][/\ \A c \in Chats :
             reset_history(reset_history(user_histories, c), c)
                = reset_history(user_histories, c)
       /\ \A h \in Handlers :
             tasks[h].pc = "idle" /\ tasks'[h].pc = "L96" =>
                LET c == tasks'[h].chat_id
                IN  /\ DOMAIN user_histories'
                          = DOMAIN user_histories \cup {c}
                    /\ user_histories'[c] = <<>>
                    /\ \A b \in DOMAIN user_histories \ {c} :
                          user_histories'[b] = user_histories[b]
                    /\ lastOp[c] = "start" =>
                          user_histories' = user_histories]_vars

\* Two /start commands of chat 2 in a row, after chat 1 got a history that
\* is still there.
C12_Witness ==
    /\ \E g, h \in Handlers :
          /\ g # h
          /\ tasks[g].pc = "L96" /\ tasks[g].chat_id = 2
          /\ tasks[h].pc = "L96" /\ tasks[h].chat_id = 2
    /\ updates = 3
    /\ DOMAIN user_histories = {1, 2}
    /\ Len(user_histories[1]) > 0
    /\ user_histories[2] = <<>>

(***************************************************************************)
(* C13, as stated: a message handler is suspended while it waits for the   *)
(* remote model, so that once it has run build_prompt and before it has    *)
(* run update_history, another handler of the same chat that waits at its  *)
(* await of line 104 can resume and run its own build_prompt.              *)
(* The program does not do that: query() is a blocking call and            *)
(* get_ai_response has no await.                                           *)
(***************************************************************************)
C13_OtherHandlerRunsDuringRemoteCall ==
    \A h, g \in Handlers :
        /\ h # g
        /\ tasks[h].pc \in RunningPcs
        /\ tasks[g].pc = "L104"
        /\ tasks[g].chat_id = tasks[h].chat_id
        => ENABLED BuildPromptStep(g)

(***************************************************************************)
(* C13, amended: a message handler is suspended only at its awaits of      *)
(* lines 104 and 107.  From its build_prompt until get_ai_response has     *)
(* returned or raised, every step is its own: no other handler takes a     *)
(* step, the store changes only by its own update_history, and at most one *)
(* handler is in that stretch.  (Two handlers of one chat can be in flight *)
(* together, one of them waiting at an await.)                             *)
(***************************************************************************)
C13_ExchangeIsAtomic ==
    [][/\ Cardinality({h \in Handlers : tasks[h].pc \in RunningPcs}) <= 1
       /\ \A h \in Handlers :
             tasks[h].pc \in RunningPcs =>
                /\ \A g \in Handlers \ {h} : tasks'[g] = tasks[g]
                /\ tasks'[h].pc # tasks[h].pc
                /\ tasks'[h].pc \in RunningPcs \cup {"L107", "raised"}
                /\ tasks'[h].chat_id = tasks[h].chat_id
                /\ user_histories' # user_histories =>
                      tasks[h].pc = "L88"]_vars

\* One handler is between build_prompt and update_history while a second
\* message of the same chat waits at line 104.
C13_Witness ==
    \E h, g \in Handlers :
        /\ h # g
        /\ tasks[h].pc = "L88"
        /\ tasks[g].pc = "L104"
        /\ tasks[g].chat_id = tasks[h].chat_id
        /\ ~ENABLED BuildPromptStep(g)

(***************************************************************************)
(* C14: when handle_message has processed a message m of chat id and the   *)
(* remote call has produced the text r, the stored history of id ends with *)
(* the two turns "User: m", "Bot: r", whatever the store was before, also  *)
(* when id had no entry.  (r is read as the text the handler returns,      *)
(* text.strip().)                                                          *)
(* The program breaks it for an id with no entry: build_prompt stores      *)
(* nothing, so the history is the bot's turn alone.                        *)
(***************************************************************************)
C14_ExchangeRecorded ==
    [][\A h \in Handlers :
          tasks[h].pc = "L88" /\ tasks'[h].pc = "L107" =>
             LET c == tasks[h].chat_id
                 n == Len(user_histories'[c])
             IN  /\ c \in DOMAIN user_histories'
                 /\ n >= 2
                 /\ user_histories'[c][n - 1] = UserTurn(tasks[h].user_text)
                 /\ user_histories'[c][n] = BotTurn(tasks'[h].answer)]_vars

(***************************************************************************)
(* C15: after start(id), under every interleaving of the handlers at       *)
(* their awaits, the stored history of id and every prompt rendered for id *)
(* hold only turns appended since that start: the history is a tail of     *)
(* those turns and the prompt is the join of their last                    *)
(* MAX_HISTORY_LENGTH.  An exchange (build_prompt up to update_history) is *)
(* never cut by a start: while it runs, its user turn is the last turn     *)
(* appended to its chat.                                                   *)
(***************************************************************************)
C15_ResetDiscards ==
    /\ \A c \in Chats :
          started[c] =>
             /\ c \in DOMAIN user_histories
             /\ IsSuffix(user_histories[c], log[c])
             /\ \A h \in JustBuilt :
                   tasks[h].chat_id = c =>
                      tasks[h].prompt =
                         Join(LastN(log[c], MAX_HISTORY_LENGTH), NEWLINE)
    /\ \A h \in Handlers :
          tasks[h].pc \in RunningPcs =>
             /\ Len(log[tasks[h].chat_id]) > 0
             /\ log[tasks[h].chat_id][Len(log[tasks[h].chat_id])]
                   = UserTurn(tasks[h].user_text)

\* A prompt has been rendered after a /start that discarded an answered
\* exchange: the handler g of that exchange still waits at line 107, its
\* bot turn is in neither the turns appended since the /start nor the store.
C15_Witness ==
    \E h \in JustBuilt, g \in Handlers :
        /\ tasks[g].pc = "L107"
        /\ tasks[g].chat_id = tasks[h].chat_id
        /\ tasks[g].answer \in {PlainText, Strip(PaddedText)}
        /\ started[tasks[h].chat_id]
        /\ log[tasks[h].chat_id] = <<UserTurn(tasks[h].user_text)>>
        /\ user_histories[tasks[h].chat_id] = log[tasks[h].chat_id]
        /\ tasks[h].prompt = UserTurn(tasks[h].user_text)

(***************************************************************************)
(* C16: a failed or malformed exchange is not rolled back.  build_prompt   *)
(* appends "User: m" to a stored history and leaves the store as it is for *)
(* an id with no entry; query() and a get_ai_response that gets an error   *)
(* payload or a payload without generated text do not change the store.    *)
(* So the user turn of a failed exchange stays in a stored history, and    *)
(* the next build_prompt of that chat renders it right before the new      *)
(* turn; for an id with no entry the failed exchange changes nothing.      *)
(***************************************************************************)
C16_FailedExchangeNotRolledBack ==
    [][\A h \in Handlers :
          LET c == tasks[h].chat_id
              m == tasks[h].user_text
          IN  /\ tasks[h].pc = "L104" /\ tasks'[h].pc = "L106" =>
                    /\ c \in DOMAIN user_histories =>
                          user_histories' =
                             [user_histories EXCEPT
                                 ![c] = Append(@, UserTurn(m))]
                    /\ c \notin DOMAIN user_histories =>
                          user_histories' = user_histories
                    /\ c \in DOMAIN user_histories
                          /\ lastOp[c] = "build_prompt" =>
                          /\ Len(user_histories[c]) > 0
                          /\ IsUserTurn(user_histories[c]
                                           [Len(user_histories[c])])
                          /\ IsSuffix(user_histories[c]
                                         [Len(user_histories[c])]
                                         \o <<NEWLINE>> \o UserTurn(m),
                                      tasks'[h].prompt)
              /\ tasks[h].pc = "L106" => user_histories' = user_histories
              /\ tasks[h].pc = "L76"
                    /\ tasks[h].output
                          \in ErrorPayloads \cup MalformedPayloads =>
                    /\ user_histories' = user_histories
                    /\ tasks'[h].pc \in {"L107", "raised"}]_vars

\* After a failed exchange of a chat that has an entry (its handler g still
\* waits at line 107 with the error or fallback answer, or has raised), the
\* next message's prompt has been built: the history ends with the two user
\* turns.
C16_Witness ==
    \E h \in JustBuilt, g \in Handlers :
        LET c == tasks[h].chat_id
        IN  /\ tasks[g].chat_id = c
            /\ \/ tasks[g].pc = "raised"
               \/ /\ tasks[g].pc = "L107"
                  /\ \/ tasks[g].answer = FALLBACK_ANSWER
                     \/ IsPrefix(ERROR_PREFIX, tasks[g].answer)
            /\ c \in DOMAIN user_histories
            /\ Len(user_histories[c]) = 2
            /\ user_histories[c][1] = UserTurn(tasks[g].user_text)
            /\ user_histories[c][2] = UserTurn(tasks[h].user_text)
            /\ tasks[h].prompt =
                  UserTurn(tasks[g].user_text) \o <<NEWLINE>>
                     \o UserTurn(tasks[h].user_text)

(***************************************************************************)
(* C17: chats are isolated.  A step that resets, builds the prompt or      *)
(* records the response for chat a leaves the store entry of every other   *)
(* chat b as it was (present or absent, and its history), and every other  *)
(* step leaves the whole store as it was.  A stored history of a, and a    *)
(* prompt just built for a, is made of the last turns appended for a       *)
(* itself, so it holds no turn appended for another chat; this includes    *)
(* chats first seen without /start.                                        *)
(***************************************************************************)
C17_SameEntry(b) ==
    /\ (b \in DOMAIN user_histories) = (b \in DOMAIN user_histories')
    /\ b \in DOMAIN user_histories => user_histories'[b] = user_histories[b]

C17_OwnTurnsOnly ==
    /\ \A a \in DOMAIN user_histories : IsSuffix(user_histories[a], log[a])
    /\ \A h \in JustBuilt :
          \E k \in 1..Len(log[tasks[h].chat_id]) :
             tasks[h].prompt =
                Join(LastN(log[tasks[h].chat_id], k), NEWLINE)

C17_ChatsIsolated ==
    /\ []C17_OwnTurnsOnly
    /\ [][\A h \in Handlers :
             tasks'[h] # tasks[h] =>
                LET a == IF tasks[h].pc = "idle" THEN tasks'[h].chat_id
                                                 ELSE tasks[h].chat_id
                    storeOp == \/ tasks'[h].pc = "L96"
                               \/ tasks[h].pc \in {"L104", "L88"}
                IN  /\ \A b \in Chats \ {a} : C17_SameEntry(b)
                    /\ ~storeOp => user_histories' = user_histories]_vars

\* A prompt has just been built for a chat with an entry while another chat,
\* first seen without /start, has a stored history of its own.
C17_Witness ==
    \E h \in JustBuilt, b \in DOMAIN user_histories :
        /\ b # tasks[h].chat_id
        /\ ~started[b]
        /\ Len(user_histories[b]) > 0
        /\ tasks[h].chat_id \in DOMAIN user_histories
        /\ user_histories[tasks[h].chat_id]
              = <<UserTurn(tasks[h].user_text)>>
        /\ tasks[h].prompt = UserTurn(tasks[h].user_text)

=============================================================================
